---------------------------- MODULE Spec2Model ----------------------------
(***************************************************************************)
(* Marine motor sizing calculator (Day2 claude_code2.py and its variants). *)
(*                                                                         *)
(* Numbers.  A Python float is modelled as an exact rational [n, d] in     *)
(* lowest terms with d > 0, or as NaN, written [n |-> 0, d |-> 0].  Every  *)
(* comparison with NaN is false, every arithmetic operation on NaN gives   *)
(* NaN.  The result of math.sqrt is a non-negative real, represented by    *)
(* its square: [sq |-> x] stands for the non-negative root of x.           *)
(* Rounding of IEEE doubles is not modelled; the sampled inputs keep every *)
(* intermediate value inside 32-bit integers.  The one exception is a      *)
(* product whose exact numerator needs more than 31 bits (the power in     *)
(* watts of main()'s winch): it is cut to the decimal digits that fit,     *)
(* nine significant digits.                                                *)
(***************************************************************************)
EXTENDS Integers, Sequences, FiniteSets

VARIABLES
    calc,                       \* "none" | "ready" | "failed": the MarineMotorCalculator object
    specification,              \* the MotorSpecification handed to __init__
    spec,                       \* self.spec
    SAFETY_FACTORS,             \* class table
    ENVIRONMENTAL_CORRECTIONS,  \* class table
    call,                       \* the last completed direct call: op, args, outcome
    pc,                         \* position inside perform_comprehensive_calculation
    frame                       \* its arguments and local variables

vars == <<calc, specification, spec, SAFETY_FACTORS, ENVIRONMENTAL_CORRECTIONS, call, pc, frame>>

-----------------------------------------------------------------------------
(* Floats as exact rationals *)

Abs(i) == IF i < 0 THEN -i ELSE i

RECURSIVE GCD(_, _)
GCD(a, b) == IF b = 0 THEN a ELSE GCD(b, a % b)

NaN == [n |-> 0, d |-> 0]

isnan(x) == x.d = 0

\* n/d in lowest terms, sign carried by the numerator (d # 0)
R(n, d) ==
    LET g == GCD(Abs(n), Abs(d))
        s == IF d < 0 THEN -1 ELSE 1
    IN  [n |-> s * (n \div g), d |-> s * (d \div g)]

Int2R(i) == [n |-> i, d |-> 1]

\* a * b stays inside 31 bits
Fits(a, b) == b = 0 \/ Abs(a) <= 2147483647 \div Abs(b)

\* quotient and remainder of q * d + r + s by d, for r, s < d, without forming r + s
Carry(q, r, s, d) ==
    IF r >= d - s THEN [q |-> q + 1, r |-> r - (d - s)] ELSE [q |-> q, r |-> r + s]

\* quotient and remainder of t.q * d + t.r + a by d
AddOnce(t, a, d) == Carry(t.q + (a \div d), t.r, a % d, d)

\* h is quotient and remainder of a * (b \div 2) by d: those of a * b by d
WideStep(h, a, b, d) ==
    IF b % 2 = 1 THEN AddOnce(Carry(2 * h.q, h.r, h.r, d), a, d) ELSE Carry(2 * h.q, h.r, h.r, d)

\* quotient and remainder of a * b by d, for a, b >= 0 and d > 0, without
\* forming a * b
RECURSIVE WideMulDiv(_, _, _)
WideMulDiv(a, b, d) ==
    IF b = 0 THEN [q |-> 0, r |-> 0] ELSE WideStep(WideMulDiv(a, b \div 2, d), a, b, d)

\* q + r/d written with as many decimal digits as fit: q' / scale
RECURSIVE Significand(_, _, _, _)
Significand(q, r, d, scale) ==
    IF r = 0 \/ q > 214748363 \/ scale > 10000000 THEN [n |-> q, d |-> scale]
    ELSE LET digit == WideMulDiv(r, 10, d)
         IN  Significand(q * 10 + digit.q, digit.r, d, scale * 10)

\* x * y, cancelling crosswise before multiplying; a product beyond 31 bits is
\* cut to the digits that fit
RMul(x, y) ==
    IF isnan(x) \/ isnan(y) THEN NaN
    ELSE LET g1 == GCD(Abs(x.n), y.d)
             g2 == GCD(Abs(y.n), x.d)
             a == x.n \div g1
             b == y.n \div g2
             d == (x.d \div g2) * (y.d \div g1)
         IN  IF Fits(a, b) THEN R(a * b, d)
             ELSE LET w == WideMulDiv(Abs(a), Abs(b), d)
                      f == Significand(w.q, w.r, d, 1)
                  IN  R((IF (a < 0) = (b < 0) THEN 1 ELSE -1) * f.n, f.d)

\* x / y for y # 0 (every division of the program is guarded against zero)
RDiv(x, y) ==
    IF isnan(x) \/ isnan(y) \/ y.n = 0 THEN NaN
    ELSE RMul(x, R(y.d, y.n))

RAdd(x, y) ==
    IF isnan(x) \/ isnan(y) THEN NaN
    ELSE LET g == GCD(x.d, y.d)
         IN  R(x.n * (y.d \div g) + y.n * (x.d \div g), (x.d \div g) * y.d)

\* x < y for numbers: by their integer parts and, when these agree, by their
\* fractions (a * b < c * e exactly when the quotient of a * b by e is below c)
Less(x, y) ==
    LET qx == x.n \div x.d
        qy == y.n \div y.d
        rx == x.n % x.d
        ry == y.n % y.d
    IN  IF qx # qy THEN qx < qy
        ELSE IF Fits(rx, y.d) /\ Fits(ry, x.d) THEN rx * y.d < ry * x.d
        ELSE WideMulDiv(rx, y.d, x.d).q < ry

RLt(x, y) == ~isnan(x) /\ ~isnan(y) /\ Less(x, y)
RLe(x, y) == ~isnan(x) /\ ~isnan(y) /\ ~Less(y, x)
RGt(x, y) == RLt(y, x)
REq(x, y) == ~isnan(x) /\ ~isnan(y) /\ x.n * y.d = y.n * x.d

Zero == Int2R(0)
One == Int2R(1)

\* math.sqrt(x) for x >= 0: the non-negative real whose square is x
sqrt(x) == [sq |-> x]

\* the quotient of two roots
RootDiv(a, b) == [sq |-> RDiv(a.sq, b.sq)]

\* math.pi, to seven digits
PI == R(355, 113)

None == [none |-> TRUE]

-----------------------------------------------------------------------------
(* Enumerations and class constants *)

ClassificationSociety == {"DNV", "ABS", "KR", "BV", "LR"}

MarineEnvironment == {"COASTAL", "OFFSHORE", "DEEP_SEA", "ARCTIC", "TROPICAL"}

GRAVITY_ACCELERATION == R(981, 100)

RPM_TO_RADIAN_PER_SEC == RDiv(RMul(Int2R(2), PI), Int2R(60))

WATT_TO_KILOWATT == 1000

SAFETY_FACTORS_0 ==
    [c \in ClassificationSociety |-> IF c = "ABS" THEN R(22, 10) ELSE R(2, 1)]

ENVIRONMENTAL_CORRECTIONS_0 ==
    [e \in MarineEnvironment |->
        CASE e = "COASTAL"  -> [salt |-> R(115, 100), temp |-> R(105, 100), vibration |-> R(105, 100)]
          [] e = "OFFSHORE" -> [salt |-> R(120, 100), temp |-> R(108, 100), vibration |-> R(110, 100)]
          [] e = "DEEP_SEA" -> [salt |-> R(110, 100), temp |-> R(115, 100), vibration |-> R(108, 100)]
          [] e = "ARCTIC"   -> [salt |-> R(105, 100), temp |-> R(120, 100), vibration |-> R(115, 100)]
          [] e = "TROPICAL" -> [salt |-> R(125, 100), temp |-> R(125, 100), vibration |-> R(112, 100)]]

\* the calculator object as a method sees it: instance attribute and class tables
Self == [spec |-> spec,
         SAFETY_FACTORS |-> SAFETY_FACTORS,
         ENVIRONMENTAL_CORRECTIONS |-> ENVIRONMENTAL_CORRECTIONS]

\* a method's effect: the object afterwards, the exception message ("" if none), the value
Return(self, v) == [self |-> self, raised |-> "", val |-> v]
Raise(self, msg) == [self |-> self, raised |-> msg, val |-> None]

-----------------------------------------------------------------------------
(* MotorSpecification values offered to the constructor *)

\* 100/981 t weighs exactly 1000 N
LoadVals == {NaN, Int2R(-1), Zero, R(100, 981)}
SpeedVals == {Zero, Int2R(900)}
RadiusVals == {Zero, Int2R(5), Int2R(6)}
EfficiencyVals == {Zero, R(4, 5), One, R(3, 2)}
SafetyVals == {One, R(6, 5)}
LoadInertiaVals == {Zero, Int2R(4250)}
MotorInertiaVals == {NaN, Zero, Int2R(125)}

MotorSpecification ==
    [load_capacity_ton : LoadVals,
     operating_speed_rpm : SpeedVals,
     drum_radius_m : RadiusVals,
     system_efficiency : EfficiencyVals,
     safety_factor : SafetyVals,
     load_inertia_kgm2 : LoadInertiaVals,
     motor_inertia_kgm2 : MotorInertiaVals,
     environment : MarineEnvironment,
     classification : ClassificationSociety]

-----------------------------------------------------------------------------
(* __init__ and _validate_inputs *)

MSG_LOAD == "load capacity must be greater than 0"
MSG_SPEED == "operating speed must be greater than 0"
MSG_RADIUS == "drum radius must be greater than 0"
MSG_EFFICIENCY == "system efficiency must be between 0 and 1"
MSG_SAFETY == "safety factor must be greater than 1"
MSG_LOAD_INERTIA == "load inertia must be greater than 0"
MSG_MOTOR_INERTIA == "motor inertia must be greater than 0"
MSG_RADIUS_LARGE == "drum radius is unrealistically large (over 5 m)"

\* variant: an efficiency of exactly 1 is rejected
validations_efficiency_below_one(self) ==
    << <<RGt(self.spec.load_capacity_ton, Zero), MSG_LOAD>>,
       <<RGt(self.spec.operating_speed_rpm, Zero), MSG_SPEED>>,
       <<RGt(self.spec.drum_radius_m, Zero), MSG_RADIUS>>,
       <<RLt(Zero, self.spec.system_efficiency) /\ RLt(self.spec.system_efficiency, One), MSG_EFFICIENCY>>,
       <<RGt(self.spec.safety_factor, One), MSG_SAFETY>>,
       <<RGt(self.spec.load_inertia_kgm2, Zero), MSG_LOAD_INERTIA>>,
       <<RGt(self.spec.motor_inertia_kgm2, Zero), MSG_MOTOR_INERTIA>>,
       <<RLe(self.spec.drum_radius_m, Int2R(5)), MSG_RADIUS_LARGE>> >>

validations(self) ==
    << <<RGt(self.spec.load_capacity_ton, Zero), MSG_LOAD>>,
       <<RGt(self.spec.operating_speed_rpm, Zero), MSG_SPEED>>,
       <<RGt(self.spec.drum_radius_m, Zero), MSG_RADIUS>>,
       <<RLt(Zero, self.spec.system_efficiency) /\ RLe(self.spec.system_efficiency, One), MSG_EFFICIENCY>>,
       <<RGt(self.spec.safety_factor, One), MSG_SAFETY>>,
       <<RGt(self.spec.load_inertia_kgm2, Zero), MSG_LOAD_INERTIA>>,
       <<RGt(self.spec.motor_inertia_kgm2, Zero), MSG_MOTOR_INERTIA>>,
       <<RLe(self.spec.drum_radius_m, Int2R(5)), MSG_RADIUS_LARGE>> >>

\* the loop over validations: raise at the first condition that is false
_validate_inputs(self) ==
    LET v == validations(self)
        failed == {i \in 1..Len(v) : ~v[i][1]}
    IN  IF failed = {} THEN Return(self, None)
        ELSE Raise(self, v[CHOOSE i \in failed : \A j \in failed : i <= j][2])

__init__(self, s) ==
    LET bound == [self EXCEPT !.spec = s]
    IN  _validate_inputs(bound)

-----------------------------------------------------------------------------
(* The calculate_* methods *)

MSG_FORCE == "force must be greater than 0"
MSG_LENGTH == "time array and torque array differ in length"
MSG_EMPTY == "empty arrays cannot be processed"
MSG_NO_VALID == "no valid data"
MSG_ZERO_TIME == "total time is 0"
MSG_MATH_DOMAIN == "math domain error"

calculate_basic_torque(self, force_n) ==
    IF RLe(force_n, Zero) THEN Raise(self, MSG_FORCE)
    ELSE Return(self, RDiv(RMul(force_n, self.spec.drum_radius_m), self.spec.system_efficiency))

calculate_torque_from_mass(self, mass_kg) ==
    LET force_n == RMul(mass_kg, GRAVITY_ACCELERATION)
    IN  calculate_basic_torque(self, force_n)

calculate_power_requirement(self, torque_nm) ==
    LET angular_velocity_rad_per_sec == RMul(self.spec.operating_speed_rpm, RPM_TO_RADIAN_PER_SEC)
        power_w == RMul(torque_nm, angular_velocity_rad_per_sec)
        power_kw == RDiv(power_w, Int2R(WATT_TO_KILOWATT))
    IN  Return(self, power_kw)

calculate_optimal_gear_ratio(self) ==
    IF RLe(self.spec.motor_inertia_kgm2, Zero) THEN Raise(self, MSG_MOTOR_INERTIA)
    ELSE Return(self, sqrt(RDiv(self.spec.load_inertia_kgm2, self.spec.motor_inertia_kgm2)))

calculate_minimum_gear_ratio(self) ==
    LET o == calculate_optimal_gear_ratio(self)
    IN  IF o.raised # "" THEN o
        ELSE Return(o.self, RootDiv(o.val, sqrt(Int2R(10))))

-----------------------------------------------------------------------------
(* calculate_rms_torque *)

RECURSIVE np_sum(_)
np_sum(a) == IF a = <<>> THEN Zero ELSE RAdd(a[1], np_sum(Tail(a)))

\* a[mask]: the entries of a whose mask entry is TRUE, in order
RECURSIVE Masked(_, _)
Masked(a, mask) ==
    IF a = <<>> THEN <<>>
    ELSE (IF mask[1] THEN <<a[1]>> ELSE <<>>) \o Masked(Tail(a), Tail(mask))

\* variant: only a longer time array counts as a mismatch
length_mismatch_longer_time(time_series, torque_series) == Len(time_series) > Len(torque_series)

length_mismatch(time_series, torque_series) == Len(time_series) # Len(torque_series)

\* variant: the mask looks at the time array only
valid_indices_time_only(time_series, torque_series) ==
    [i \in 1..Len(time_series) |-> ~isnan(time_series[i])]

valid_indices(time_series, torque_series) ==
    [i \in 1..Len(time_series) |-> ~(isnan(time_series[i]) \/ isnan(torque_series[i]))]

\* variant: the torque is not squared
weighted_torque_unsquared(torque_valid, time_valid) ==
    np_sum([i \in 1..Len(time_valid) |-> RMul(torque_valid[i], time_valid[i])])

\* variant: every sample is weighted by the first duration
weighted_by_first_time(torque_valid, time_valid) ==
    np_sum([i \in 1..Len(time_valid) |->
               RMul(RMul(torque_valid[i], torque_valid[i]), time_valid[1])])

\* np.sum(torque_valid**2 * time_valid)
weighted_torque_squared(torque_valid, time_valid) ==
    np_sum([i \in 1..Len(time_valid) |->
               RMul(RMul(torque_valid[i], torque_valid[i]), time_valid[i])])

calculate_rms_torque(self, time_series, torque_series) ==
    IF length_mismatch(time_series, torque_series) THEN Raise(self, MSG_LENGTH)
    ELSE IF Len(time_series) = 0 THEN Raise(self, MSG_EMPTY)
    ELSE LET valid == valid_indices(time_series, torque_series)
         IN  IF ~(\E i \in DOMAIN valid : valid[i]) THEN Raise(self, MSG_NO_VALID)
             ELSE LET time_valid == Masked(time_series, valid)
                      torque_valid == Masked(torque_series, valid)
                      total_time == np_sum(time_valid)
                  IN  IF REq(total_time, Zero) THEN Raise(self, MSG_ZERO_TIME)
                      ELSE LET q == RDiv(weighted_torque_squared(torque_valid, time_valid), total_time)
                           IN  IF RLt(q, Zero) THEN Raise(self, MSG_MATH_DOMAIN)
                               ELSE Return(self, sqrt(q))

-----------------------------------------------------------------------------
(* apply_environmental_corrections and get_classification_safety_factor *)

\* variant: the total is the sum of the three factors
correction_summary_sum(corrections) ==
    [salt |-> corrections.salt,
     temp |-> corrections.temp,
     vibration |-> corrections.vibration,
     total |-> RAdd(RAdd(corrections.salt, corrections.temp), corrections.vibration)]

correction_summary(corrections) ==
    [salt |-> corrections.salt,
     temp |-> corrections.temp,
     vibration |-> corrections.vibration,
     total |-> RMul(RMul(corrections.salt, corrections.temp), corrections.vibration)]

\* variant: the total is stored into the class table's entry instead of a new dict
apply_environmental_corrections_in_place(self, base_torque) ==
    LET corrections == self.ENVIRONMENTAL_CORRECTIONS[self.spec.environment]
        salt_corrected == RMul(base_torque, corrections.salt)
        temp_corrected == RMul(salt_corrected, corrections.temp)
        final_corrected == RMul(temp_corrected, corrections.vibration)
        summary == [salt |-> corrections.salt,
                    temp |-> corrections.temp,
                    vibration |-> corrections.vibration,
                    total |-> RMul(RMul(corrections.salt, corrections.temp), corrections.vibration)]
    IN  Return([self EXCEPT !.ENVIRONMENTAL_CORRECTIONS[self.spec.environment] = summary],
               [torque |-> final_corrected, summary |-> summary])

apply_environmental_corrections(self, base_torque) ==
    LET corrections == self.ENVIRONMENTAL_CORRECTIONS[self.spec.environment]
        salt_corrected == RMul(base_torque, corrections.salt)
        temp_corrected == RMul(salt_corrected, corrections.temp)
        final_corrected == RMul(temp_corrected, corrections.vibration)
    IN  Return(self, [torque |-> final_corrected, summary |-> correction_summary(corrections)])

get_classification_safety_factor(self) ==
    Return(self, IF self.spec.classification \in DOMAIN self.SAFETY_FACTORS
                 THEN self.SAFETY_FACTORS[self.spec.classification]
                 ELSE Int2R(2))

-----------------------------------------------------------------------------
(* perform_comprehensive_calculation, one numbered step of its body at a time *)

\* an optional array argument: None, or an array
Array(a) == [data |-> a]

\* the frame at entry: the two arguments, every local still unbound
Enter(time_series, torque_series) ==
    [time_series |-> time_series,
     torque_series |-> torque_series,
     load_force_n |-> None,
     basic_torque |-> None,
     env_corrected_torque |-> None,
     env_corrections |-> None,
     classification_safety |-> None,
     final_torque |-> None,
     power_kw |-> None,
     optimal_gear |-> None,
     minimum_gear |-> None,
     rms_torque |-> None,
     result |-> None,
     raised |-> ""]

\* 1. base torque
step_basic_torque(self, f) ==
    LET load_force_n == RMul(RMul(self.spec.load_capacity_ton, Int2R(1000)), GRAVITY_ACCELERATION)
        r == calculate_basic_torque(self, load_force_n)
    IN  IF r.raised # "" THEN r
        ELSE Return(r.self, [f EXCEPT !.load_force_n = load_force_n, !.basic_torque = r.val])

\* 2. environmental correction
step_environment(self, f) ==
    LET r == apply_environmental_corrections(self, f.basic_torque)
    IN  IF r.raised # "" THEN r
        ELSE Return(r.self, [f EXCEPT !.env_corrected_torque = r.val.torque,
                                      !.env_corrections = r.val.summary])

\* variant: only the classification factor is applied, not the specification's own
step_safety_classification_only(self, f) ==
    LET r == get_classification_safety_factor(self)
    IN  IF r.raised # "" THEN r
        ELSE Return(r.self,
                 [f EXCEPT !.classification_safety = r.val,
                           !.final_torque = RMul(f.env_corrected_torque, r.val)])

\* 3. safety factors
step_safety(self, f) ==
    LET r == get_classification_safety_factor(self)
    IN  IF r.raised # "" THEN r
        ELSE Return(r.self,
                 [f EXCEPT !.classification_safety = r.val,
                           !.final_torque = RMul(RMul(f.env_corrected_torque, r.val),
                                                 r.self.spec.safety_factor)])

\* variant: the power is computed from the environment-corrected torque
step_power_before_safety(self, f) ==
    LET r == calculate_power_requirement(self, f.env_corrected_torque)
    IN  IF r.raised # "" THEN r
        ELSE Return(r.self, [f EXCEPT !.power_kw = r.val])

\* 4. power
step_power(self, f) ==
    LET r == calculate_power_requirement(self, f.final_torque)
    IN  IF r.raised # "" THEN r
        ELSE Return(r.self, [f EXCEPT !.power_kw = r.val])

\* 5. gear ratios
step_gear(self, f) ==
    LET o == calculate_optimal_gear_ratio(self)
    IN  IF o.raised # "" THEN o
        ELSE LET m == calculate_minimum_gear_ratio(o.self)
             IN  IF m.raised # "" THEN m
                 ELSE Return(m.self, [f EXCEPT !.optimal_gear = o.val, !.minimum_gear = m.val])

\* the condition under which step 6 calls calculate_rms_torque
duty_cycle_supplied(time_series, torque_series) ==
    time_series # None /\ torque_series # None

\* 6. RMS torque (optional)
step_rms(self, f) ==
    IF duty_cycle_supplied(f.time_series, f.torque_series)
    THEN LET r == calculate_rms_torque(self, f.time_series.data, f.torque_series.data)
         IN  IF r.raised # "" THEN r
             ELSE Return(r.self, [f EXCEPT !.rms_torque = r.val])
    ELSE Return(self, [f EXCEPT !.rms_torque = None])

CalculationResult(f) ==
    [required_torque_nm |-> f.final_torque,
     motor_power_kw |-> f.power_kw,
     optimal_gear_ratio |-> f.optimal_gear,
     minimum_gear_ratio |-> f.minimum_gear,
     rms_torque_nm |-> f.rms_torque,
     environmental_corrections |-> f.env_corrections]

\* result = CalculationResult(...); return result
step_result(self, f) == Return(self, [f EXCEPT !.result = CalculationResult(f)])

\* variant: the handler logs the error and returns what was computed so far
except_handler_partial_result(f, e) == [f EXCEPT !.result = CalculationResult(f)]

\* except Exception as e: log it; raise
except_handler(f, e) == [f EXCEPT !.raised = e]

-----------------------------------------------------------------------------
(* Arguments the callers pass *)

ForceSamples == {Int2R(-5), Zero, Int2R(1000)}
MassSamples == {Zero, R(100000, 981)}
TorqueSamples == {Zero, Int2R(1500)}
BaseTorqueSamples == {Int2R(-2), Int2R(1500)}
TimeSeriesSamples == {None, Array(<<Zero>>), Array(<<NaN, Int2R(2)>>)}
TorqueSeriesSamples == {None, Array(<<Int2R(5)>>), Array(<<Int2R(-3), Int2R(5)>>)}

\* longest duty cycle of the exhaustive calculate_rms_torque runs
MaxLen == 2

TimeVals == {NaN, Int2R(-1), Zero, Int2R(1), Int2R(2)}
TorqueVals == {NaN, Int2R(-3), Zero, Int2R(5)}

SeriesUpTo(S, n) == UNION {[1..k -> S] : k \in 0..n}

\* the specification built in main()
container_ship_winch ==
    [load_capacity_ton |-> Int2R(50),
     operating_speed_rpm |-> Int2R(1800),
     drum_radius_m |-> R(12, 10),
     system_efficiency |-> R(85, 100),
     safety_factor |-> R(12, 10),
     load_inertia_kgm2 |-> Int2R(4250),
     motor_inertia_kgm2 |-> Int2R(125),
     environment |-> "OFFSHORE",
     classification |-> "DNV"]

-----------------------------------------------------------------------------
(* The state machine *)

NoCall == [op |-> "", args |-> None, raised |-> "", val |-> None]

Init ==
    /\ calc = "none"
    /\ specification = None
    /\ spec = None
    /\ SAFETY_FACTORS = SAFETY_FACTORS_0
    /\ ENVIRONMENTAL_CORRECTIONS = ENVIRONMENTAL_CORRECTIONS_0
    /\ call = NoCall
    /\ pc = "idle"
    /\ frame = None

\* what a method call leaves behind: the object, and the outcome the caller sees
Completed(op, args, r) ==
    /\ spec' = r.self.spec
    /\ SAFETY_FACTORS' = r.self.SAFETY_FACTORS
    /\ ENVIRONMENTAL_CORRECTIONS' = r.self.ENVIRONMENTAL_CORRECTIONS
    /\ call' = [op |-> op, args |-> args, raised |-> r.raised, val |-> r.val]

Construct ==
    /\ calc = "none"
    /\ \E s \in MotorSpecification :
          LET r == __init__(Self, s)
          IN  /\ specification' = s
              /\ calc' = IF r.raised = "" THEN "ready" ELSE "failed"
              /\ Completed("__init__", s, r)
    /\ UNCHANGED <<pc, frame>>

CalculateBasicTorque ==
    /\ calc = "ready"
    /\ \E force_n \in ForceSamples :
          Completed("calculate_basic_torque", force_n, calculate_basic_torque(Self, force_n))
    /\ UNCHANGED <<calc, specification, pc, frame>>

CalculateTorqueFromMass ==
    /\ calc = "ready"
    /\ \E mass_kg \in MassSamples :
          Completed("calculate_torque_from_mass", mass_kg, calculate_torque_from_mass(Self, mass_kg))
    /\ UNCHANGED <<calc, specification, pc, frame>>

CalculatePowerRequirement ==
    /\ calc = "ready"
    /\ \E torque_nm \in TorqueSamples :
          Completed("calculate_power_requirement", torque_nm,
                    calculate_power_requirement(Self, torque_nm))
    /\ UNCHANGED <<calc, specification, pc, frame>>

CalculateOptimalGearRatio ==
    /\ calc = "ready"
    /\ Completed("calculate_optimal_gear_ratio", None, calculate_optimal_gear_ratio(Self))
    /\ UNCHANGED <<calc, specification, pc, frame>>

CalculateMinimumGearRatio ==
    /\ calc = "ready"
    /\ Completed("calculate_minimum_gear_ratio", None, calculate_minimum_gear_ratio(Self))
    /\ UNCHANGED <<calc, specification, pc, frame>>

CalculateRmsTorque ==
    /\ calc = "ready"
    /\ \E t \in TimeSeriesSamples \ {None}, q \in TorqueSeriesSamples \ {None} :
          Completed("calculate_rms_torque",
                    [time_series |-> t.data, torque_series |-> q.data],
                    calculate_rms_torque(Self, t.data, q.data))
    /\ UNCHANGED <<calc, specification, pc, frame>>

ApplyEnvironmentalCorrections ==
    /\ calc = "ready"
    /\ \E base_torque \in BaseTorqueSamples :
          Completed("apply_environmental_corrections", base_torque,
                    apply_environmental_corrections(Self, base_torque))
    /\ UNCHANGED <<calc, specification, pc, frame>>

GetClassificationSafetyFactor ==
    /\ calc = "ready"
    /\ Completed("get_classification_safety_factor", None, get_classification_safety_factor(Self))
    /\ UNCHANGED <<calc, specification, pc, frame>>

\* a caller enters perform_comprehensive_calculation
PerformComprehensiveCalculation ==
    /\ calc = "ready"
    /\ pc \in {"idle", "done", "raised"}
    /\ \E t \in TimeSeriesSamples, q \in TorqueSeriesSamples : frame' = Enter(t, q)
    /\ pc' = "basic_torque"
    /\ UNCHANGED <<calc, specification, spec, SAFETY_FACTORS, ENVIRONMENTAL_CORRECTIONS, call>>

\* one step of the try block: on success go to next, on an exception to the handler
Advance(r, next) ==
    /\ spec' = r.self.spec
    /\ SAFETY_FACTORS' = r.self.SAFETY_FACTORS
    /\ ENVIRONMENTAL_CORRECTIONS' = r.self.ENVIRONMENTAL_CORRECTIONS
    /\ IF r.raised = ""
       THEN frame' = r.val /\ pc' = next
       ELSE frame' = except_handler(frame, r.raised) /\ pc' = "raised"
    /\ UNCHANGED <<calc, specification, call>>

StepBasicTorque == pc = "basic_torque" /\ Advance(step_basic_torque(Self, frame), "environment")
StepEnvironment == pc = "environment" /\ Advance(step_environment(Self, frame), "safety")
StepSafety == pc = "safety" /\ Advance(step_safety(Self, frame), "power")
StepPower == pc = "power" /\ Advance(step_power(Self, frame), "gear")
StepGear == pc = "gear" /\ Advance(step_gear(Self, frame), "rms")
StepRms == pc = "rms" /\ Advance(step_rms(Self, frame), "result")
StepResult == pc = "result" /\ Advance(step_result(Self, frame), "done")

Next ==
    \/ Construct
    \/ CalculateBasicTorque
    \/ CalculateTorqueFromMass
    \/ CalculatePowerRequirement
    \/ CalculateOptimalGearRatio
    \/ CalculateMinimumGearRatio
    \/ CalculateRmsTorque
    \/ ApplyEnvironmentalCorrections
    \/ GetClassificationSafetyFactor
    \/ PerformComprehensiveCalculation
    \/ StepBasicTorque
    \/ StepEnvironment
    \/ StepSafety
    \/ StepPower
    \/ StepGear
    \/ StepRms
    \/ StepResult

Spec == Init /\ [][Next]_vars

\* calculate_rms_torque alone, on every duty cycle up to MaxLen
InitRms ==
    /\ calc = "ready"
    /\ specification = container_ship_winch
    /\ spec = container_ship_winch
    /\ SAFETY_FACTORS = SAFETY_FACTORS_0
    /\ ENVIRONMENTAL_CORRECTIONS = ENVIRONMENTAL_CORRECTIONS_0
    /\ call = NoCall
    /\ pc = "idle"
    /\ frame = None

RmsOnDutyCycle ==
    /\ calc = "ready"
    /\ call = NoCall
    /\ \E t \in SeriesUpTo(TimeVals, MaxLen), q \in SeriesUpTo(TorqueVals, MaxLen) :
          Completed("calculate_rms_torque",
                    [time_series |-> t, torque_series |-> q],
                    calculate_rms_torque(Self, t, q))
    /\ UNCHANGED <<calc, specification, pc, frame>>

NextRms == RmsOnDutyCycle

SpecRms == InitRms /\ [][NextRms]_vars

-----------------------------------------------------------------------------
(* Properties of calculate_rms_torque, checked under SpecRms *)

IsRmsCall == call.op = "calculate_rms_torque"

\* the indices of the pairs in which neither element is NaN
ValidPairs(t, q) == {i \in 1..Len(t) : t[i].d # 0 /\ q[i].d # 0}

\* the sum of f[i] over the index set I
RECURSIVE SumOver(_, _)
SumOver(f, I) ==
    IF I = {} THEN Zero
    ELSE LET i == CHOOSE j \in I : TRUE
         IN  RAdd(f[i], SumOver(f, I \ {i}))

\* C2: calculate_rms_torque raises, and returns nothing, when the lengths differ,
\* when an array is empty, when every pair holds a NaN and when the valid times
\* sum to zero; the length test comes first, so an empty time array with a
\* non-empty torque array gets the length-mismatch error.
C2_RmsFailures ==
    IsRmsCall =>
        LET t == call.args.time_series
            q == call.args.torque_series
        IN  /\ Len(t) # Len(q) => call.raised = MSG_LENGTH
            /\ (Len(t) = 0 \/ Len(q) = 0) => call.raised # ""
            /\ (Len(t) = Len(q) /\ ValidPairs(t, q) = {}) => call.raised # ""
            /\ (Len(t) = Len(q) /\ SumOver(t, ValidPairs(t, q)).n = 0) => call.raised # ""
            /\ call.raised # "" => call.val = None

\* time=[1,2], torque=[5] failed with the length-mismatch error
C2_Witness ==
    /\ IsRmsCall
    /\ call.args = [time_series |-> <<Int2R(1), Int2R(2)>>, torque_series |-> <<Int2R(5)>>]
    /\ call.raised = MSG_LENGTH

\* C3: a returned RMS torque is sqrt(sum(torque_i^2 * time_i) / sum(time_i)) taken
\* over exactly the pairs in which neither element is NaN.
C3_PairedExclusion ==
    (IsRmsCall /\ call.raised = "") =>
        LET t == call.args.time_series
            q == call.args.torque_series
            V == ValidPairs(t, q)
            num == SumOver([i \in 1..Len(t) |-> RMul(RMul(q[i], q[i]), t[i])], V)
            den == SumOver(t, V)
        IN  call.val = [sq |-> RDiv(num, den)]

\* a NaN torque took its time out of the denominator: time=[1,2], torque=[NaN,5] gave 5
C3_Witness ==
    /\ IsRmsCall
    /\ call.args = [time_series |-> <<Int2R(1), Int2R(2)>>, torque_series |-> <<NaN, Int2R(5)>>]
    /\ call.raised = ""
    /\ call.val = [sq |-> Int2R(25)]

IsSingleSegment ==
    IsRmsCall /\ Len(call.args.time_series) = 1 /\ Len(call.args.torque_series) = 1

\* |x| as a root: the non-negative real whose square is x * x
AbsRoot(x) == [sq |-> R(x.n * x.n, x.d * x.d)]

\* C8 as stated: a single segment (neither value NaN) returns |torque| whatever
\* its time weight.
C8_SingleSegmentAnyWeight ==
    (IsSingleSegment /\ call.args.torque_series[1].d # 0 /\ call.args.time_series[1].d # 0) =>
        /\ call.raised = ""
        /\ call.val = AbsRoot(call.args.torque_series[1])

\* C8, amended: a single segment whose time weight is neither zero nor NaN and
\* whose torque is not NaN returns |torque|; with a zero time weight the call
\* raises the zero-total-time error and returns nothing.
C8_SingleSegment ==
    (IsSingleSegment /\ call.args.torque_series[1].d # 0 /\ call.args.time_series[1].d # 0) =>
        IF call.args.time_series[1].n = 0
        THEN call.raised = MSG_ZERO_TIME /\ call.val = None
        ELSE call.raised = "" /\ call.val = AbsRoot(call.args.torque_series[1])

\* time=[2], torque=[-3] gave 3
C8_Witness ==
    /\ IsSingleSegment
    /\ call.args.time_series = <<Int2R(2)>>
    /\ call.args.torque_series = <<Int2R(-3)>>
    /\ call.val = [sq |-> Int2R(9)]

\* the permutations of 1..n
PermutationsOf(n) == {p \in [1..n -> 1..n] : \A i, j \in 1..n : p[i] = p[j] => i = j}

Permuted(a, p) == [i \in 1..Len(a) |-> a[p[i]]]

\* C9: reordering the (time, torque) pairs of a duty cycle changes neither the
\* value calculate_rms_torque returns nor the error it raises.
C9_PermutationInvariant ==
    (IsRmsCall /\ Len(call.args.time_series) = Len(call.args.torque_series)) =>
        LET t == call.args.time_series
            q == call.args.torque_series
        IN  \A p \in PermutationsOf(Len(t)) :
                LET r == calculate_rms_torque(Self, Permuted(t, p), Permuted(q, p))
                IN  r.raised = call.raised /\ r.val = call.val

\* a returned value for two different pairs: time=[1,2], torque=[5,-3]
C9_Witness ==
    /\ IsRmsCall
    /\ call.args = [time_series |-> <<Int2R(1), Int2R(2)>>,
                    torque_series |-> <<Int2R(5), Int2R(-3)>>]
    /\ call.raised = ""
    /\ call.val = [sq |-> R(43, 3)]

-----------------------------------------------------------------------------
(* Properties of the calculator object, checked under Spec *)

Positive(x) == x.d # 0 /\ x.n > 0

\* the messages of the bounds that the specification s does not satisfy
ViolatedBounds(s) ==
       (IF Positive(s.load_capacity_ton) THEN {} ELSE {MSG_LOAD})
    \cup (IF Positive(s.operating_speed_rpm) THEN {} ELSE {MSG_SPEED})
    \cup (IF Positive(s.drum_radius_m) THEN {} ELSE {MSG_RADIUS})
    \cup (IF Positive(s.system_efficiency) /\ s.system_efficiency.n <= s.system_efficiency.d
          THEN {} ELSE {MSG_EFFICIENCY})
    \cup (IF s.safety_factor.d # 0 /\ s.safety_factor.n > s.safety_factor.d
          THEN {} ELSE {MSG_SAFETY})
    \cup (IF Positive(s.load_inertia_kgm2) THEN {} ELSE {MSG_LOAD_INERTIA})
    \cup (IF Positive(s.motor_inertia_kgm2) THEN {} ELSE {MSG_MOTOR_INERTIA})
    \cup (IF s.drum_radius_m.d # 0 /\ s.drum_radius_m.n <= 5 * s.drum_radius_m.d
          THEN {} ELSE {MSG_RADIUS_LARGE})

\* C1: the constructor raises exactly when a field is out of its bound (a NaN field
\* is out of every bound), the message it raises belongs to a bound that is
\* violated, and a specification within all bounds yields a calculator.
C1_ConstructionValidates ==
    call.op = "__init__" =>
        /\ call.raised # "" <=> ViolatedBounds(call.args) # {}
        /\ call.raised # "" => call.raised \in ViolatedBounds(call.args)
        /\ calc = (IF ViolatedBounds(call.args) = {} THEN "ready" ELSE "failed")

\* a drum radius of 6 m with every other field in bounds: rejected for the radius
C1_Witness ==
    /\ call.op = "__init__"
    /\ call.args.drum_radius_m = Int2R(6)
    /\ ViolatedBounds(call.args) = {MSG_RADIUS_LARGE}
    /\ call.raised = MSG_RADIUS_LARGE
    /\ calc = "failed"

\* the torque, power and gear ratios of claim C4, from the constructor's argument
ExpectedTorque(s) ==
    LET base == RDiv(RMul(RMul(RMul(s.load_capacity_ton, Int2R(1000)), R(981, 100)),
                          s.drum_radius_m),
                     s.system_efficiency)
        env == ENVIRONMENTAL_CORRECTIONS_0[s.environment]
    IN  RMul(RMul(RMul(RMul(RMul(base, env.salt), env.temp), env.vibration),
                  SAFETY_FACTORS_0[s.classification]),
             s.safety_factor)

ExpectedPower(torque, s) ==
    RDiv(RMul(torque, RMul(s.operating_speed_rpm, RDiv(RMul(Int2R(2), PI), Int2R(60)))),
         Int2R(1000))

C4_Result ==
    pc = "done" =>
        /\ frame.result.required_torque_nm = ExpectedTorque(specification)
        /\ frame.result.motor_power_kw =
               ExpectedPower(frame.result.required_torque_nm, specification)
        /\ frame.result.optimal_gear_ratio =
               [sq |-> RDiv(specification.load_inertia_kgm2, specification.motor_inertia_kgm2)]
        /\ frame.result.minimum_gear_ratio =
               [sq |-> RDiv(RDiv(specification.load_inertia_kgm2,
                                 specification.motor_inertia_kgm2), Int2R(10))]

C4_StepOrder ==
    pc' # pc =>
        <<pc, pc'>> \in {<<"idle", "basic_torque">>, <<"done", "basic_torque">>,
                         <<"raised", "basic_torque">>,
                         <<"basic_torque", "environment">>, <<"environment", "safety">>,
                         <<"safety", "power">>, <<"power", "gear">>, <<"gear", "rms">>,
                         <<"rms", "result">>, <<"result", "done">>,
                         <<"basic_torque", "raised">>, <<"environment", "raised">>,
                         <<"safety", "raised">>, <<"power", "raised">>,
                         <<"gear", "raised">>, <<"rms", "raised">>, <<"result", "raised">>}

\* C4: perform_comprehensive_calculation goes base torque, environment, safety,
\* power, gear ratios, RMS in that order; the returned torque is the base torque
\* times the three environmental factors, the classification factor and the
\* specification's safety factor, the power is computed from that final torque,
\* and the gear ratios are functions of the two inertias alone.
C4_Pipeline == [](C4_Result) /\ [][C4_StepOrder]_vars

\* a completed calculation under ABS rules offshore
C4_Witness ==
    /\ pc = "done"
    /\ specification.classification = "ABS"
    /\ specification.environment = "OFFSHORE"
    /\ specification.system_efficiency = R(4, 5)
    /\ frame.result.required_torque_nm = ExpectedTorque(specification)

\* C5: when calculate_rms_torque, the last inner step, fails, the call raises that
\* same error and returns no CalculationResult; a call that raised has no result.
C5_NoPartialResult ==
    /\ pc = "raised" => frame.raised # "" /\ frame.result = None
    /\ pc = "done" => frame.raised = "" /\ frame.result # None
    /\ (pc \in {"done", "raised"} /\ frame.time_series # None /\ frame.torque_series # None) =>
          LET r == calculate_rms_torque(Self, frame.time_series.data, frame.torque_series.data)
          IN  r.raised # "" =>
                 /\ pc = "raised"
                 /\ frame.raised = r.raised
                 /\ frame.result = None

\* the RMS step failed on a zero total time after torque, power and gears were computed
C5_Witness ==
    /\ pc = "raised"
    /\ frame.raised = MSG_ZERO_TIME
    /\ frame.final_torque # None
    /\ frame.power_kw # None
    /\ frame.minimum_gear # None
    /\ frame.result = None

\* C6: in a returned result the RMS torque is present only if a duty-cycle series
\* was supplied, and it is present whenever one was supplied, also when only one
\* of the two arrays was given.
C6_RmsIffSupplied ==
    pc = "done" =>
        /\ frame.result.rms_torque_nm # None =>
              (frame.time_series # None \/ frame.torque_series # None)
        /\ (frame.time_series # None \/ frame.torque_series # None) =>
              frame.result.rms_torque_nm # None

\* C7: the breakdown's total is the product of its three factors, each factor and
\* the total exceed 1, and the corrected torque is the base torque times the
\* total, so it exceeds a positive base torque.
C7_EnvironmentalCorrections ==
    call.op = "apply_environmental_corrections" =>
        LET b == call.val.summary
            t == ENVIRONMENTAL_CORRECTIONS_0[specification.environment]
        IN  /\ call.raised = ""
            /\ b.salt = t.salt /\ b.temp = t.temp /\ b.vibration = t.vibration
            /\ b.total = RMul(b.salt, RMul(b.temp, b.vibration))
            /\ \A x \in {b.salt, b.temp, b.vibration, b.total} : x.n > x.d /\ x.d > 0
            /\ call.val.torque = RMul(call.args, b.total)
            /\ call.args.n > 0 =>
                  call.val.torque.n * call.args.d > call.args.n * call.val.torque.d

\* a positive base torque corrected for the arctic
C7_Witness ==
    /\ call.op = "apply_environmental_corrections"
    /\ specification.environment = "ARCTIC"
    /\ call.args = Int2R(1500)
    /\ call.val.summary.total = R(1449, 1000)
    /\ call.val.torque = R(1449 * 15, 10)

\* the calculator as constructed, untouched by any earlier call
Fresh ==
    [spec |-> specification,
     SAFETY_FACTORS |-> SAFETY_FACTORS_0,
     ENVIRONMENTAL_CORRECTIONS |-> ENVIRONMENTAL_CORRECTIONS_0]

RunAlone(op, args) ==
    CASE op = "calculate_basic_torque" -> calculate_basic_torque(Fresh, args)
      [] op = "calculate_torque_from_mass" -> calculate_torque_from_mass(Fresh, args)
      [] op = "calculate_power_requirement" -> calculate_power_requirement(Fresh, args)
      [] op = "calculate_optimal_gear_ratio" -> calculate_optimal_gear_ratio(Fresh)
      [] op = "calculate_minimum_gear_ratio" -> calculate_minimum_gear_ratio(Fresh)
      [] op = "calculate_rms_torque" ->
            calculate_rms_torque(Fresh, args.time_series, args.torque_series)
      [] op = "apply_environmental_corrections" -> apply_environmental_corrections(Fresh, args)
      [] op = "get_classification_safety_factor" -> get_classification_safety_factor(Fresh)

StepAlone(name, r) ==
    IF r.raised # "" THEN r
    ELSE CASE name = "basic_torque" -> step_basic_torque(r.self, r.val)
           [] name = "environment" -> step_environment(r.self, r.val)
           [] name = "safety" -> step_safety(r.self, r.val)
           [] name = "power" -> step_power(r.self, r.val)
           [] name = "gear" -> step_gear(r.self, r.val)
           [] name = "rms" -> step_rms(r.self, r.val)
           [] name = "result" -> step_result(r.self, r.val)

\* perform_comprehensive_calculation run from entry to exit on the fresh calculator
PerformAlone(time_series, torque_series) ==
    StepAlone("result", StepAlone("rms", StepAlone("gear", StepAlone("power",
        StepAlone("safety", StepAlone("environment", StepAlone("basic_torque",
            Return(Fresh, Enter(time_series, torque_series)))))))))

\* C10: no operation, successful or not, changes a field of the bound
\* specification or an entry of the two class tables; every call, whatever ran
\* before it or in between its steps, has the outcome it has when run alone.
C10_NoMutation ==
    /\ SAFETY_FACTORS = SAFETY_FACTORS_0
    /\ ENVIRONMENTAL_CORRECTIONS = ENVIRONMENTAL_CORRECTIONS_0
    /\ calc # "none" => spec = specification
    /\ (calc = "ready" /\ call.op # "__init__") =>
          LET r == RunAlone(call.op, call.args)
          IN  call.raised = r.raised /\ call.val = r.val
    /\ pc \in {"done", "raised"} =>
          LET r == PerformAlone(frame.time_series, frame.torque_series)
          IN  /\ frame.raised = r.raised
              /\ frame.result = (IF r.raised = "" THEN r.val.result ELSE None)

\* a comprehensive calculation completed on a calculator whose latest direct call
\* applied an environmental correction
C10_Witness ==
    /\ pc = "done"
    /\ call.op = "apply_environmental_corrections"
    /\ frame.result.rms_torque_nm # None
    /\ frame.result.environmental_corrections.total = call.val.summary.total

-----------------------------------------------------------------------------
(* motor_selection_manual_code.py: calculate_RMS_torque and the report line *)

\* Python's sum() over an array: left to right, starting from 0
RECURSIVE builtin_sum(_)
builtin_sum(a) == IF a = <<>> THEN Zero ELSE RAdd(builtin_sum(SubSeq(a, 1, Len(a) - 1)), a[Len(a)])

\* torque_series**2*time_series, element by element (arrays of equal length)
torque_squared_times_time(time_series, torque_series) ==
    [i \in 1..Len(time_series) |->
        RMul(RMul(torque_series[i], torque_series[i]), time_series[i])]

\* variant: the plain root mean square, every sample weighted alike
calculate_RMS_torque_unweighted(time_series, torque_series) ==
    sqrt(RDiv(builtin_sum([i \in 1..Len(torque_series) |->
                               RMul(torque_series[i], torque_series[i])]),
              Int2R(Len(time_series))))

calculate_RMS_torque(time_series, torque_series) ==
    sqrt(RDiv(builtin_sum(torque_squared_times_time(time_series, torque_series)),
              builtin_sum(time_series)))

\* the largest r with r * r <= n, for 0 <= n < 2^31
RECURSIVE IsqrtBetween(_, _, _)
IsqrtBetween(n, lo, hi) ==
    IF lo = hi THEN lo
    ELSE LET mid == (lo + hi + 1) \div 2
         IN  IF mid * mid <= n THEN IsqrtBetween(n, mid, hi) ELSE IsqrtBetween(n, lo, mid - 1)

Isqrt(n) == IsqrtBetween(n, 0, IF n < 46340 THEN n ELSE 46340)

\* f"{x:.1f}" of a root x: the nearest number of tenths, as an integer (5874 for "587.4")
format_1f(x) ==
    LET twenty_x == Isqrt((400 * x.sq.n) \div x.sq.d)   \* floor(20 * x)
    IN  (twenty_x + 1) \div 2

\* the duty cycle of main()
main_time_series == <<Int2R(3), Int2R(2), Int2R(1), Int2R(3), Int2R(2), Int2R(1)>>
main_torque_series ==
    <<Int2R(900), Int2R(600), Zero, Int2R(300), Int2R(600), Zero>>

\* segment durations and torques of the duty cycles tried besides main()'s
DurationVals == {Int2R(1), Int2R(2), Int2R(3)}
SegmentTorqueVals == {Zero, Int2R(300), Int2R(600), Int2R(900)}

\* duty cycles: arrays of equal length, at least one segment, positive durations
DutyCycles ==
    {<<main_time_series, main_torque_series>>}
    \cup UNION {[1..k -> DurationVals] \X [1..k -> SegmentTorqueVals] : k \in 1..MaxLen}

InitManual ==
    /\ calc = "none"
    /\ specification = None
    /\ spec = None
    /\ SAFETY_FACTORS = SAFETY_FACTORS_0
    /\ ENVIRONMENTAL_CORRECTIONS = ENVIRONMENTAL_CORRECTIONS_0
    /\ call = NoCall
    /\ pc = "idle"
    /\ frame = None

\* RMS_torque = calculate_RMS_torque(time_series, torque_series), then the report line
ManualRmsTorque ==
    /\ call = NoCall
    /\ \E dc \in DutyCycles :
          LET RMS_torque == calculate_RMS_torque(dc[1], dc[2])
          IN  call' = [op |-> "calculate_RMS_torque",
                       args |-> [time_series |-> dc[1], torque_series |-> dc[2]],
                       raised |-> "",
                       val |-> [RMS_torque |-> RMS_torque, printed |-> format_1f(RMS_torque)]]
    /\ UNCHANGED <<calc, specification, spec, SAFETY_FACTORS, ENVIRONMENTAL_CORRECTIONS, pc, frame>>

NextManual == ManualRmsTorque

SpecManual == InitManual /\ [][NextManual]_vars

IsMainDutyCycle ==
    /\ call.op = "calculate_RMS_torque"
    /\ call.args.time_series = main_time_series
    /\ call.args.torque_series = main_torque_series

\* the sums and the quotient of claim C11, and the class method's value for the same arrays
C11_Sums ==
    IsMainDutyCycle =>
        /\ builtin_sum(torque_squared_times_time(call.args.time_series, call.args.torque_series))
               = Int2R(4140000)
        /\ builtin_sum(call.args.time_series) = Int2R(12)
        /\ call.val.RMS_torque = [sq |-> Int2R(345000)]
        /\ LET r == calculate_rms_torque(Self, call.args.time_series, call.args.torque_series)
           IN  r.raised = "" /\ r.val = call.val.RMS_torque

\* C11 as stated: for time=[3,2,1,3,2,1], torque=[900,600,0,300,600,0] the sums are
\* 4,140,000 and 12, the quotient is 345,000 and the RMS torque is 587.2 to one decimal.
C11_RmsIs587_2 ==
    /\ C11_Sums
    /\ IsMainDutyCycle => call.val.printed = 5872

\* C11, amended: the sums are 4,140,000 and 12, the quotient is 345,000, and the
\* RMS torque sqrt(345,000) is 587.4 to one decimal.
C11_RmsIs587_4 ==
    /\ C11_Sums
    /\ IsMainDutyCycle =>
          /\ call.val.printed = 5874
          \* 587.35 <= sqrt(345,000) < 587.45, both sides multiplied by 20 and squared
          /\ 11747 * 11747 <= 400 * 345000
          /\ 400 * 345000 < 11749 * 11749

\* main()'s duty cycle was evaluated and reported
C11_Witness ==
    /\ IsMainDutyCycle
    /\ call.val.RMS_torque = [sq |-> Int2R(345000)]
    /\ call.val.printed = 5874

-----------------------------------------------------------------------------
(* claude_code2.py main(): the container ship winch, end to end *)

\* f"{x:,.0f}": the nearest integer, a tie going to the even one
format_0f(x) ==
    LET q == x.n \div x.d
        r == x.n % x.d
    IN  IF 2 * r > x.d \/ (2 * r = x.d /\ q % 2 = 1) THEN q + 1 ELSE q

\* the specifications main() builds: the winch under every environment and rule set
WinchSpecifications ==
    {[container_ship_winch EXCEPT !.environment = e, !.classification = c] :
        e \in MarineEnvironment, c \in ClassificationSociety}

\* calculator = MarineMotorCalculator(container_ship_winch)
ConstructWinch ==
    /\ calc = "none"
    /\ \E s \in WinchSpecifications :
          LET r == __init__(Self, s)
          IN  /\ specification' = s
              /\ calc' = IF r.raised = "" THEN "ready" ELSE "failed"
              /\ Completed("__init__", s, r)
    /\ UNCHANGED <<pc, frame>>

\* calculator.perform_comprehensive_calculation(), with or without a duty cycle
PerformOnWinch ==
    /\ calc = "ready"
    /\ pc = "idle"
    /\ \E t \in {None, Array(main_time_series)}, q \in {None, Array(main_torque_series)} :
          frame' = Enter(t, q)
    /\ pc' = "basic_torque"
    /\ UNCHANGED <<calc, specification, spec, SAFETY_FACTORS, ENVIRONMENTAL_CORRECTIONS, call>>

NextWinch ==
    \/ ConstructWinch
    \/ PerformOnWinch
    \/ StepBasicTorque
    \/ StepEnvironment
    \/ StepSafety
    \/ StepPower
    \/ StepGear
    \/ StepRms
    \/ StepResult

SpecWinch == Init /\ [][NextWinch]_vars

IsWinchResult == pc = "done" /\ specification = container_ship_winch

\* the values of claim C12 that the code does produce
C12_ForceAndFactor ==
    IsWinchResult =>
        /\ frame.load_force_n = Int2R(490500)
        /\ frame.env_corrections.total = R(14256, 10000)
        /\ frame.classification_safety = Int2R(2)
        /\ frame.result.required_torque_nm = frame.final_torque
        /\ frame.result.motor_power_kw = frame.power_kw

\* C12 as stated: base force 490,500 N, environmental factor 1.4256, torque after
\* environmental correction 987,178 N.m, required torque 2,369,227 N.m, motor
\* power 446,700 kW, each to the digits printed.
C12_AsPrinted ==
    /\ C12_ForceAndFactor
    /\ IsWinchResult =>
          /\ format_0f(frame.env_corrected_torque) = 987178
          /\ format_0f(frame.result.required_torque_nm) = 2369227
          /\ 100 * format_0f(RDiv(frame.result.motor_power_kw, Int2R(100))) = 446700

\* C12, amended: base force 490,500 N, environmental factor 1.4256, torque after
\* environmental correction 987,186 N.m, required torque 2,369,247 N.m, motor
\* power 446,600 kW to the nearest hundred (between 446,592 and 446,593 kW).
C12_Scenario ==
    /\ C12_ForceAndFactor
    /\ IsWinchResult =>
          /\ frame.basic_torque = R(11772000, 17)
          /\ format_0f(frame.env_corrected_torque) = 987186
          /\ format_0f(frame.result.required_torque_nm) = 2369247
          /\ 100 * format_0f(RDiv(frame.result.motor_power_kw, Int2R(100))) = 446600
          /\ RLe(Int2R(446592), frame.result.motor_power_kw)
          /\ RLt(frame.result.motor_power_kw, Int2R(446593))

\* the winch of main() was calculated to the end
C12_Witness ==
    /\ IsWinchResult
    /\ format_0f(frame.result.required_torque_nm) = 2369247
    /\ frame.result.motor_power_kw # None

-----------------------------------------------------------------------------
(* 4교시 gpt_code.py and claude_code.py: choosing a standard motor rating *)

\* an outcome of a plain function: the value returned, or the exception raised
Returned(v) == [raised |-> "", val |-> v]
Raised(e) == [raised |-> e, val |-> None]

STANDARD_POWERS ==
    <<R(15, 2), Int2R(11), Int2R(15), R(37, 2), Int2R(22), Int2R(30), Int2R(37), Int2R(45),
      Int2R(55), Int2R(75), Int2R(90), Int2R(110), Int2R(132), Int2R(160), Int2R(200),
      Int2R(250), Int2R(315), Int2R(400), Int2R(500)>>

\* for p in STANDARD_POWERS[i:]: if p >= p_kw: return p
RECURSIVE for_p_in_STANDARD_POWERS(_, _)
for_p_in_STANDARD_POWERS(i, p_kw) ==
    IF i > Len(STANDARD_POWERS) THEN STANDARD_POWERS[Len(STANDARD_POWERS)]
    ELSE IF RLe(p_kw, STANDARD_POWERS[i]) THEN STANDARD_POWERS[i]
    ELSE for_p_in_STANDARD_POWERS(i + 1, p_kw)

\* variant: a rating equal to the demand is passed over (p > p_kw)
pick_standard_power_kw_strict(p_kw) ==
    LET above == {i \in 1..Len(STANDARD_POWERS) : RLt(p_kw, STANDARD_POWERS[i])}
    IN  IF above = {} THEN STANDARD_POWERS[Len(STANDARD_POWERS)]
        ELSE STANDARD_POWERS[CHOOSE i \in above : \A j \in above : i <= j]

pick_standard_power_kw(p_kw) == for_p_in_STANDARD_POWERS(1, p_kw)

\* the keyword defaults of size_hoist_motor
size_hoist_motor_defaults ==
    [drum_diameter_m |-> R(12, 10),
     reeving |-> Int2R(4),
     t_acc |-> Int2R(3),
     dyn_coeff |-> R(115, 100),
     reeving_eff |-> R(94, 100),
     gearbox_eff |-> R(95, 100),
     bearing_eff |-> R(98, 100),
     radius_layer_factor |-> One,
     motor_rpm |-> Int2R(1750),
     service_factor |-> R(110, 100)]

\* a / b as Python divides floats: an exception when b is zero
Quotient(a, b) == IF ~isnan(b) /\ b.n = 0 THEN Raised("ZeroDivisionError") ELSE Returned(RDiv(a, b))

\* size_hoist_motor, statement by statement; each operator takes the locals bound
\* so far and binds the next ones

\* the return statement, after T_motor
hoist_return(k, F_hook, T_drum, omega_drum, P_motor_kw, gear_ratio, T_motor_unserviced) ==
    IF T_motor_unserviced.raised # "" THEN T_motor_unserviced
    ELSE Returned([hook_force_N |-> F_hook,
                   drum_torque_Nm |-> T_drum,
                   drum_speed_rads |-> omega_drum,
                   motor_power_kw |-> P_motor_kw,
                   selected_power_kw |-> pick_standard_power_kw(P_motor_kw),
                   gear_ratio |-> gear_ratio,
                   motor_torque_Nm |-> RMul(T_motor_unserviced.val, k.service_factor)])

\* T_motor = (T_drum / (gear_ratio * gearbox_eff)) * service_factor
hoist_T_motor(k, F_hook, T_drum, omega_drum, P_motor_kw, gear_ratio) ==
    IF gear_ratio.raised # "" THEN gear_ratio
    ELSE hoist_return(k, F_hook, T_drum, omega_drum, P_motor_kw, gear_ratio.val,
                      Quotient(T_drum, RMul(gear_ratio.val, k.gearbox_eff)))

\* P_motor, P_motor_kw, omega_motor, gear_ratio
hoist_gear_ratio(k, F_hook, T_drum, omega_drum, P_drum_over_eta) ==
    IF P_drum_over_eta.raised # "" THEN P_drum_over_eta
    ELSE hoist_T_motor(k, F_hook, T_drum, omega_drum,
                       RDiv(RMul(P_drum_over_eta.val, k.service_factor), Int2R(1000)),
                       Quotient(RDiv(RMul(RMul(Int2R(2), PI), k.motor_rpm), Int2R(60)),
                                omega_drum))

\* P_drum, eta_mech
hoist_P_drum(k, F_hook, T_drum, omega_drum) ==
    IF omega_drum.raised # "" THEN omega_drum
    ELSE hoist_gear_ratio(k, F_hook, T_drum, omega_drum.val,
                          Quotient(RMul(T_drum, omega_drum.val),
                                   RMul(k.gearbox_eff, k.bearing_eff)))

\* T_drum, omega_drum
hoist_T_drum(k, v_hook, r_eff, F_hook, T_line) ==
    IF T_line.raised # "" THEN T_line
    ELSE hoist_P_drum(k, F_hook, RMul(T_line.val, r_eff),
                      Quotient(RMul(k.reeving, v_hook), r_eff))

\* T_line
hoist_T_line(k, v_hook, r_eff, F_hook) ==
    hoist_T_drum(k, v_hook, r_eff, F_hook,
                 Quotient(F_hook, RMul(k.reeving, k.reeving_eff)))

\* a, F_hook
hoist_F_hook(k, m, v_hook, r_eff) ==
    hoist_T_line(k, v_hook, r_eff,
                 RMul(RMul(m, RAdd(R(981, 100),
                                   IF k.t_acc # Zero /\ RGt(k.t_acc, Zero)
                                   THEN RDiv(v_hook, k.t_acc) ELSE Zero)),
                      k.dyn_coeff))

\* size_hoist_motor(load_ton, speed_m_per_min, **k): m, v_hook, r_eff
size_hoist_motor(load_ton, speed_m_per_min, k) ==
    hoist_F_hook(k,
                 RMul(load_ton, Int2R(1000)),
                 RDiv(speed_m_per_min, Int2R(60)),
                 RDiv(RMul(k.drum_diameter_m, k.radius_layer_factor), Int2R(2)))

\* claude_code.py: the list calculate_motor_power chooses from
standard_powers ==
    <<R(15, 2), Int2R(11), Int2R(15), R(37, 2), Int2R(22), Int2R(30), Int2R(37), Int2R(45),
      Int2R(55), Int2R(75), Int2R(90), Int2R(110), Int2R(132), Int2R(160), Int2R(200),
      Int2R(250), Int2R(315), Int2R(400), Int2R(500)>>

\* next(power for power in standard_powers[i:] if power >= motor_power_kw)
RECURSIVE next_power(_, _)
next_power(i, motor_power_kw) ==
    IF i > Len(standard_powers) THEN Raised("StopIteration")
    ELSE IF RLe(motor_power_kw, standard_powers[i]) THEN Returned(standard_powers[i])
    ELSE next_power(i + 1, motor_power_kw)

\* the required motor power in kW
motor_power_kw_required(specs, required_torque) ==
    LET drum_angular_velocity == RDiv(RMul(Int2R(2), specs.speed_m_per_sec), specs.drum_diameter_m)
        mechanical_power == RMul(required_torque, drum_angular_velocity)
        total_efficiency == RMul(specs.gearbox_efficiency, specs.bearing_efficiency)
        motor_power_w == RDiv(mechanical_power, total_efficiency)
    IN  RDiv(motor_power_w, Int2R(1000))

\* calculate_motor_power(specs, required_torque)
calculate_motor_power(specs, required_torque) ==
    LET motor_power_kw == motor_power_kw_required(specs, required_torque)
        selected_power_kw == next_power(1, motor_power_kw)
    IN  IF selected_power_kw.raised # "" THEN selected_power_kw
        ELSE Returned(<<motor_power_kw, selected_power_kw.val>>)

\* demands: every rating, a quarter kW above each, and values outside the list
PowerSamples ==
    {NaN, Int2R(-1), Zero, R(1, 2)}
    \cup {STANDARD_POWERS[i] : i \in 1..Len(STANDARD_POWERS)}
    \cup {RAdd(STANDARD_POWERS[i], R(1, 4)) : i \in 1..Len(STANDARD_POWERS)}

\* hoists: the keyword defaults, and a loss-free hoist without acceleration
HoistLoadVals == {Int2R(10), Int2R(50), Int2R(100), R(10000, 981)}
HoistSpeedVals == {Zero, Int2R(6), Int2R(30), Int2R(300)}
HoistKeywords ==
    {size_hoist_motor_defaults,
     [size_hoist_motor_defaults EXCEPT !.t_acc = Zero, !.dyn_coeff = One, !.reeving_eff = One,
                                       !.gearbox_eff = One, !.bearing_eff = One,
                                       !.service_factor = One]}

\* specs as calculate_hoist_motor_specifications builds them, drum diameter 1.0 m
HoistSpecs ==
    {[speed_m_per_sec |-> RDiv(speed_m_per_min, Int2R(60)),
      drum_diameter_m |-> One,
      gearbox_efficiency |-> R(95, 100),
      bearing_efficiency |-> R(98, 100)] : speed_m_per_min \in {Int2R(30), Int2R(60)}}

\* torques that make the required power sweep PowerSamples at 30 m/min
RequiredTorqueSamples == {RMul(p, Int2R(931)) : p \in PowerSamples \ {NaN}}

PickStandardPowerKw ==
    /\ call = NoCall
    /\ \E p_kw \in PowerSamples :
          call' = [op |-> "pick_standard_power_kw", args |-> p_kw,
                   raised |-> "", val |-> pick_standard_power_kw(p_kw)]
    /\ UNCHANGED <<calc, specification, spec, SAFETY_FACTORS, ENVIRONMENTAL_CORRECTIONS, pc, frame>>

SizeHoistMotor ==
    /\ call = NoCall
    /\ \E load_ton \in HoistLoadVals, speed_m_per_min \in HoistSpeedVals, k \in HoistKeywords :
          LET r == size_hoist_motor(load_ton, speed_m_per_min, k)
          IN  call' = [op |-> "size_hoist_motor",
                       args |-> [load_ton |-> load_ton, speed_m_per_min |-> speed_m_per_min,
                                 k |-> k],
                       raised |-> r.raised, val |-> r.val]
    /\ UNCHANGED <<calc, specification, spec, SAFETY_FACTORS, ENVIRONMENTAL_CORRECTIONS, pc, frame>>

CalculateMotorPower ==
    /\ call = NoCall
    /\ \E specs \in HoistSpecs, required_torque \in RequiredTorqueSamples :
          LET r == calculate_motor_power(specs, required_torque)
          IN  call' = [op |-> "calculate_motor_power",
                       args |-> [specs |-> specs, required_torque |-> required_torque],
                       raised |-> r.raised, val |-> r.val]
    /\ UNCHANGED <<calc, specification, spec, SAFETY_FACTORS, ENVIRONMENTAL_CORRECTIONS, pc, frame>>

NextRating ==
    \/ PickStandardPowerKw
    \/ SizeHoistMotor
    \/ CalculateMotorPower

SpecRating == InitManual /\ [][NextRating]_vars

Ratings == {STANDARD_POWERS[i] : i \in 1..Len(STANDARD_POWERS)}

\* pick_standard_power_kw(p) for a number p
PickChoosesSmallest ==
    (call.op = "pick_standard_power_kw" /\ ~isnan(call.args)) =>
        LET p == call.args
        IN  /\ (\E r \in Ratings : RLe(p, r)) =>
                   /\ call.val \in Ratings
                   /\ RLe(p, call.val)
                   /\ \A r \in Ratings : RLe(p, r) => RLe(call.val, r)
            /\ (\A r \in Ratings : RGt(p, r)) => call.val = Int2R(500)
            /\ RLe(p, Int2R(500)) => next_power(1, p) = Returned(call.val)
            /\ RGt(p, Int2R(500)) => next_power(1, p) = Raised("StopIteration")

\* size_hoist_motor: the rating it reports against the power it requires
HoistRatingAgainstDemand ==
    (call.op = "size_hoist_motor" /\ call.raised = "") =>
        /\ call.val.selected_power_kw \in Ratings
        /\ RGt(call.val.motor_power_kw, Int2R(500)) =>
               /\ call.val.selected_power_kw = Int2R(500)
               /\ RLt(call.val.selected_power_kw, call.val.motor_power_kw)
        /\ RLe(call.val.motor_power_kw, Int2R(500)) =>
               RLe(call.val.motor_power_kw, call.val.selected_power_kw)

\* calculate_motor_power: a rating up to 500 kW, a failure beyond
MotorPowerRatingOrFailure ==
    call.op = "calculate_motor_power" =>
        LET p == motor_power_kw_required(call.args.specs, call.args.required_torque)
        IN  /\ RLe(p, Int2R(500)) =>
                   /\ call.raised = ""
                   /\ call.val = <<p, pick_standard_power_kw(p)>>
            /\ RGt(p, Int2R(500)) =>
                   /\ call.raised = "StopIteration"
                   /\ call.val = None

\* C13: pick_standard_power_kw(p) returns the smallest rating of the ascending list
\* that is >= p when there is one and 500 when p exceeds every rating, so beyond
\* 500 kW size_hoist_motor reports a rating below the required power; up to 500 kW
\* it agrees with calculate_motor_power, which beyond 500 kW raises StopIteration
\* and returns nothing.
C13_RatingSelection ==
    /\ \A i \in 1..(Len(STANDARD_POWERS) - 1) : RLt(STANDARD_POWERS[i], STANDARD_POWERS[i + 1])
    /\ PickChoosesSmallest
    /\ HoistRatingAgainstDemand
    /\ MotorPowerRatingOrFailure

\* a hoist whose required power is beyond the largest rating
C13_Witness ==
    /\ call.op = "size_hoist_motor"
    /\ call.raised = ""
    /\ call.args.k = size_hoist_motor_defaults
    /\ RGt(call.val.motor_power_kw, Int2R(500))
    /\ call.val.selected_power_kw = Int2R(500)

=============================================================================
